---- MODULE Spec2Model ----
(***************************************************************************)
(* power-exporter: battery sampling and fan-out pipeline (main.go).        *)
(*                                                                         *)
(* Representation of Go values:                                            *)
(*  - a string is a sequence of tokens.  A token is one character, except  *)
(*    that a word the program compares as a whole (an attribute key, a     *)
(*    status word, the "BAT" prefix) is written as one token; "=" is       *)
(*    always a token of its own.  Two strings are equal iff their token    *)
(*    sequences are equal.                                                 *)
(*  - a float64 is the exact rational <<num, den>> in lowest terms with    *)
(*    den > 0 (the rounding of a division is not modelled); the float64    *)
(*    of an integer beyond the model's integers is the integer it rounds   *)
(*    to, written <<a, b, c>> as in the int64 section.                     *)
(*  - an int is an integer; the two saturation results of strconv.Atoi     *)
(*    are the values MaxInt64 and MinInt64 below.                          *)
(***************************************************************************)
EXTENDS Integers, Sequences, FiniteSets, TLC

None == "none"

\* ------------------------------------------------------------------ bounds
\* Number of ticks the tick counter distinguishes (it saturates there).
MaxTick == 2
\* Longest attribute file, in lines, of the parsing specification.
MaxLines == 2
\* Largest energy value of the derivation specification.
MaxEnergy == 3

\* ----------------------------------------------------------------- strings
HasPrefix(s, p) == Len(s) >= Len(p) /\ SubSeq(s, 1, Len(p)) = p

\* Index of the first "=" of a line, 0 when there is none.
FirstEq(line) ==
    IF \E i \in 1..Len(line) : line[i] = "="
    THEN CHOOSE i \in 1..Len(line) :
            line[i] = "=" /\ \A j \in 1..(i - 1) : line[j] # "="
    ELSE 0

\* strings.SplitN(line, "=", 2)
SplitN2(line) ==
    IF FirstEq(line) = 0 THEN <<line>>
    ELSE <<SubSeq(line, 1, FirstEq(line) - 1),
           SubSeq(line, FirstEq(line) + 1, Len(line))>>

Digits == <<"0", "1", "2", "3", "4", "5", "6", "7", "8", "9">>
IsDigit(c) == \E i \in 1..10 : Digits[i] = c
DigitVal(c) == (CHOOSE i \in 1..10 : Digits[i] = c) - 1

\* The results of strconv.Atoi on a literal beyond the 64-bit range,
\* 9223372036854775807 and -9223372036854775808.  Both exceed the integers of
\* the model checker and are represented by its extreme integers, which no
\* in-range literal of the model (at most 9 digits) denotes.
MaxInt64 == 2147483647
MinInt64 == -2147483647
\* Number of decimal digits of MaxInt64.
Int64Digits == 19

RECURSIVE StripZeros(_)
StripZeros(ds) ==
    IF Len(ds) > 1 /\ ds[1] = "0" THEN StripZeros(Tail(ds)) ELSE ds

RECURSIVE DecValue(_)
DecValue(ds) ==
    IF ds = <<>> THEN 0
    ELSE 10 * DecValue(SubSeq(ds, 1, Len(ds) - 1)) + DigitVal(ds[Len(ds)])

HasSign(s) == Len(s) > 0 /\ s[1] \in {"+", "-"}
Unsigned(s) == IF HasSign(s) THEN Tail(s) ELSE s

\* strconv.Atoi reports an error: the string is not an optional sign followed
\* by one or more decimal digits, or the number is out of the int range.
AtoiSyntaxErr(s) ==
    \/ Unsigned(s) = <<>>
    \/ \E i \in 1..Len(Unsigned(s)) : ~IsDigit(Unsigned(s)[i])
AtoiRangeErr(s) ==
    /\ ~AtoiSyntaxErr(s)
    /\ Len(StripZeros(Unsigned(s))) > Int64Digits
AtoiErr(s) == AtoiSyntaxErr(s) \/ AtoiRangeErr(s)

\* The value strconv.Atoi returns (the error is discarded by the callers):
\* 0 on a syntax error, the nearest bound on a range error.  Literals of 10
\* to 19 significant digits are not among the inputs of this model.
Atoi(s) ==
    IF AtoiSyntaxErr(s) THEN 0
    ELSE IF AtoiRangeErr(s)
         THEN (IF s[1] = "-" THEN MinInt64 ELSE MaxInt64)
         ELSE IF s[1] = "-" THEN 0 - DecValue(Unsigned(s))
              ELSE DecValue(Unsigned(s))

\* --------------------------------------------------------------- floats
RECURSIVE GCD(_, _)
GCD(a, b) == IF b = 0 THEN a ELSE GCD(b, a % b)
Abs(n) == IF n < 0 THEN 0 - n ELSE n
\* n / d as a float64, d > 0
Rat(n, d) ==
    IF n = 0 THEN <<0, 1>>
    ELSE <<n \div GCD(Abs(n), d), d \div GCD(Abs(n), d)>>
Float(n) == Rat(n, 1)

\* ------------------------------------------------------- int64 and Duration
\* An int64, or the exact product of two, is <<a, b, c>> for
\* a * 10^18 + b * 10^9 + c with b and c in 0..10^9 - 1; the sign is in a.
Billion == 1000000000
Norm(x) ==
    LET b1 == x[2] + (x[3] \div Billion)
    IN <<x[1] + (b1 \div Billion), b1 % Billion, x[3] % Billion>>
Add(x, y) == Norm(<<x[1] + y[1], x[2] + y[2], x[3] + y[3]>>)
Scale(k, x) == Norm(<<k * x[1], k * x[2], k * x[3]>>)
Sub(x, y) == Add(x, Scale(0 - 1, y))
Less(x, y) ==
    \/ x[1] < y[1]
    \/ x[1] = y[1] /\ x[2] < y[2]
    \/ x[1] = y[1] /\ x[2] = y[2] /\ x[3] < y[3]
Leq(x, y) == x = y \/ Less(x, y)
Zero == <<0, 0, 0>>
TwoTo63 == <<9, 223372036, 854775808>>
TwoTo64 == <<18, 446744073, 709551616>>
\* The int64 that an exact result x wraps to; x within 3 * 2^64 of zero.
Wrap64(x) ==
    LET k == CHOOSE k \in (0 - 3)..3 :
                 /\ Leq(Scale(0 - 1, TwoTo63), Sub(x, Scale(k, TwoTo64)))
                 /\ Less(Sub(x, Scale(k, TwoTo64)), TwoTo63)
    IN Sub(x, Scale(k, TwoTo64))

\* The int64 that integer n of the model denotes.
Int64Value(n) ==
    IF n = MaxInt64 THEN Sub(TwoTo63, <<0, 0, 1>>)
    ELSE IF n = MinInt64 THEN Scale(0 - 1, TwoTo63)
    ELSE Norm(<<0, 0, n>>)

\* float64(x) for an int64 x: x rounded to a 53-bit significand, to nearest,
\* ties to even.
Significand == 53
\* 2^53, 2^54, ..., 2^64
PowersOfTwo ==
    <<<<0, 9007199, 254740992>>,
      <<0, 18014398, 509481984>>,
      <<0, 36028797, 18963968>>,
      <<0, 72057594, 37927936>>,
      <<0, 144115188, 75855872>>,
      <<0, 288230376, 151711744>>,
      <<0, 576460752, 303423488>>,
      <<1, 152921504, 606846976>>,
      <<2, 305843009, 213693952>>,
      <<4, 611686018, 427387904>>,
      <<9, 223372036, 854775808>>,
      <<18, 446744073, 709551616>>>>
Pow2(k) == PowersOfTwo[k + 1 - Significand]
\* x mod u for 0 <= x and a small u
ModSmall(x, u) ==
    ((x[1] % u) * (((Billion % u) * (Billion % u)) % u)
        + (x[2] % u) * (Billion % u) + (x[3] % u)) % u
RoundSignificand(x) ==
    IF Leq(x, Pow2(Significand)) THEN x
    ELSE LET k == CHOOSE j \in Significand..63 :
                     Leq(Pow2(j), x) /\ Less(x, Pow2(j + 1))
             u == 2 ^ (k + 1 - Significand)
             q == ModSmall(x, u)
             down == Sub(x, <<0, 0, q>>)
             up == Add(down, <<0, 0, u>>)
         IN IF 2 * q < u THEN down
            ELSE IF 2 * q > u THEN up
            ELSE IF ModSmall(down, 2 * u) = 0 THEN down ELSE up
Float64OfInt64(x) ==
    IF Less(x, Zero) THEN Scale(0 - 1, RoundSignificand(Scale(0 - 1, x)))
    ELSE RoundSignificand(x)
\* float64(n) for integer n of the model: every integer other than the two
\* extremes is below 2^53 in magnitude and converts exactly.
Float64Extreme ==
    [n \in {MaxInt64, MinInt64} |-> Float64OfInt64(Int64Value(n))]
Float64(n) ==
    IF n \in DOMAIN Float64Extreme THEN Float64Extreme[n] ELSE Float(n)

\* n seconds in nanoseconds, exactly; n below 2 * 10^9 in magnitude by 10^9.
Seconds(n) == <<n[1] * Billion + n[2], n[3], 0>>
\* time.Duration(n) * time.Second
DurationSeconds(n) == Wrap64(Seconds(n))

\* ------------------------------------------------------------ Sample Reader
K_STATUS == "POWER_SUPPLY_STATUS"
K_PRESENT == "POWER_SUPPLY_PRESENT"
K_TECHNOLOGY == "POWER_SUPPLY_TECHNOLOGY"
K_CYCLE_COUNT == "POWER_SUPPLY_CYCLE_COUNT"
K_VOLTAGE_NOW == "POWER_SUPPLY_VOLTAGE_NOW"
K_ENERGY_FULL_DESIGN == "POWER_SUPPLY_ENERGY_FULL_DESIGN"
K_ENERGY_FULL == "POWER_SUPPLY_ENERGY_FULL"
K_ENERGY_NOW == "POWER_SUPPLY_ENERGY_NOW"
K_CAPACITY == "POWER_SUPPLY_CAPACITY"
K_MODEL_NAME == "POWER_SUPPLY_MODEL_NAME"
K_MANUFACTURER == "POWER_SUPPLY_MANUFACTURER"
K_SERIAL_NUMBER == "POWER_SUPPLY_SERIAL_NUMBER"

\* The numeric keys and the BatteryInfo field each one sets.
NumericField ==
    [k \in {K_CYCLE_COUNT, K_VOLTAGE_NOW, K_ENERGY_FULL_DESIGN,
            K_ENERGY_FULL, K_ENERGY_NOW, K_CAPACITY} |->
        CASE k = K_CYCLE_COUNT -> "CycleCount"
          [] k = K_VOLTAGE_NOW -> "VoltageNow"
          [] k = K_ENERGY_FULL_DESIGN -> "EnergyDesign"
          [] k = K_ENERGY_FULL -> "EnergyFull"
          [] k = K_ENERGY_NOW -> "EnergyNow"
          [] k = K_CAPACITY -> "Capacity"]
NumericKeys == DOMAIN NumericField

\* &BatteryInfo{Name: name}: every other field holds its zero value.
NewBatteryInfo(name) ==
    [Name |-> name, Status |-> <<>>, Present |-> FALSE, Technology |-> <<>>,
     CycleCount |-> 0, VoltageNow |-> 0, EnergyFull |-> 0, EnergyNow |-> 0,
     EnergyDesign |-> 0, Capacity |-> 0, Model |-> <<>>,
     Manufacturer |-> <<>>, Serial |-> <<>>]

\* One iteration of the scanner loop: the switch on the key of one line.
ScanLine(info, line) ==
    LET parts == SplitN2(line) IN
    IF Len(parts) # 2 THEN info
    ELSE LET key == parts[1]
             val == parts[2]
         IN CASE key = <<K_STATUS>> -> [info EXCEPT !.Status = val]
              [] key = <<K_PRESENT>> -> [info EXCEPT !.Present = (val = <<"1">>)]
              [] key = <<K_TECHNOLOGY>> -> [info EXCEPT !.Technology = val]
              [] key = <<K_CYCLE_COUNT>> -> [info EXCEPT !.CycleCount = Atoi(val)]
              [] key = <<K_VOLTAGE_NOW>> -> [info EXCEPT !.VoltageNow = Atoi(val)]
              [] key = <<K_ENERGY_FULL_DESIGN>> ->
                     [info EXCEPT !.EnergyDesign = Atoi(val)]
              [] key = <<K_ENERGY_FULL>> -> [info EXCEPT !.EnergyFull = Atoi(val)]
              [] key = <<K_ENERGY_NOW>> -> [info EXCEPT !.EnergyNow = Atoi(val)]
              [] key = <<K_CAPACITY>> -> [info EXCEPT !.Capacity = Atoi(val)]
              [] key = <<K_MODEL_NAME>> -> [info EXCEPT !.Model = val]
              [] key = <<K_MANUFACTURER>> -> [info EXCEPT !.Manufacturer = val]
              [] key = <<K_SERIAL_NUMBER>> -> [info EXCEPT !.Serial = val]
              [] OTHER -> info

RECURSIVE ScanLines(_, _)
ScanLines(info, lines) ==
    IF lines = <<>> THEN info
    ELSE ScanLines(ScanLine(info, Head(lines)), Tail(lines))

\* The attribute file of a device as one read finds it: os.Open fails
\* (open = FALSE) or it yields the lines of the file.
NoFile == [open |-> FALSE, lines |-> <<>>]
TextFile(ls) == [open |-> TRUE, lines |-> ls]

\* readBatteryInfo: (nil, err) is [err |-> TRUE], (info, nil) carries info.
readBatteryInfo(name, file) ==
    IF ~file.open THEN [err |-> TRUE]
    ELSE [err |-> FALSE, info |-> ScanLines(NewBatteryInfo(name), file.lines)]

\* ---------------------------------------------------------- Device Enumerator
\* The power-supply namespace: os.ReadDir fails (readable = FALSE) or lists
\* entries in name order; uevent tells whether os.Stat finds the entry's
\* attribute file.
Entry(n, u) == [name |-> n, uevent |-> u]
NoDir == [readable |-> FALSE, entries |-> <<>>]
Dir(es) == [readable |-> TRUE, entries |-> es]

RECURSIVE BatteryNames(_)
BatteryNames(es) ==
    IF es = <<>> THEN <<>>
    ELSE IF HasPrefix(Head(es).name, <<"BAT">>) /\ Head(es).uevent
         THEN <<Head(es).name>> \o BatteryNames(Tail(es))
         ELSE BatteryNames(Tail(es))

findBatteries(ns) == IF ~ns.readable THEN <<>> ELSE BatteryNames(ns.entries)

\* ------------------------------------------------------------ Metric Deriver
Million == 1000000

\* Variant of capacityHealth that clamps the result at 100.
capacityHealth_clamped(info) ==
    IF info.EnergyDesign > 0
    THEN (IF info.EnergyFull > info.EnergyDesign THEN Float(100)
          ELSE Rat(100 * info.EnergyFull, info.EnergyDesign))
    ELSE Float(100)

capacityHealth(info) ==
    IF info.EnergyDesign > 0
    THEN Rat(100 * info.EnergyFull, info.EnergyDesign)
    ELSE Float(100)

\* Variant of chargingCode with the codes of "Full" and "Not charging"
\* exchanged.
chargingCode_swapped(status) ==
    CASE status = <<"Charging">> -> 1
      [] status = <<"Full">> -> 3
      [] status = <<"Not charging">> -> 2
      [] OTHER -> 0

chargingCode(status) ==
    CASE status = <<"Charging">> -> 1
      [] status = <<"Full">> -> 2
      [] status = <<"Not charging">> -> 3
      [] OTHER -> 0

\* The gauge keys in the order updateMetrics sets them.
MetricNames ==
    <<"percentage", "capacity", "charging", "voltage", "energy_now",
      "cycle_count">>
Metrics == {MetricNames[i] : i \in 1..Len(MetricNames)}

\* The value updateMetrics sets on each gauge for one reading.
Derived(info) ==
    [percentage |-> Float64(info.Capacity),
     capacity |-> capacityHealth(info),
     charging |-> Float(chargingCode(info.Status)),
     voltage |-> Rat(info.VoltageNow, Million),
     energy_now |-> Rat(info.EnergyNow, Million),
     cycle_count |-> Float64(info.CycleCount)]

\* The point updateMetrics writes to the time-series sink for one reading.
Point(host, batName, info) ==
    [tags |-> [host |-> host, battery |-> batName],
     fields |-> [percentage |-> Float64(info.Capacity),
                 capacity_health |-> capacityHealth(info),
                 charging |-> Float(chargingCode(info.Status)),
                 voltage |-> Rat(info.VoltageNow, Million),
                 energy_wh |-> Rat(info.EnergyNow, Million),
                 cycle_count |-> info.CycleCount,
                 status |-> info.Status]]

\* -------------------------------------------------------------------- inputs
KV(k, v) == <<k, "=">> \o v

AC == <<"AC">>
BAT0 == <<"BAT", "0">>
BAT1 == <<"BAT", "1">>

\* A decimal literal beyond the range of int64.
BigNumber == [i \in 1..(Int64Digits + 1) |-> "9"]

\* The namespaces the process may be started in.
Namespaces ==
    {NoDir,
     Dir(<<Entry(AC, TRUE)>>),
     Dir(<<Entry(AC, TRUE), Entry(BAT0, FALSE)>>),
     Dir(<<Entry(AC, TRUE), Entry(BAT0, TRUE), Entry(BAT1, TRUE)>>),
     Dir(<<Entry(BAT0, FALSE), Entry(BAT1, TRUE)>>)}

FileA ==
    TextFile(<<KV(K_STATUS, <<"Charging">>),
               KV(K_PRESENT, <<"1">>),
               KV(K_CYCLE_COUNT, <<"7">>),
               KV(K_VOLTAGE_NOW, <<"1", "2", "3", "0", "0", "0", "0", "0">>),
               KV(K_ENERGY_FULL_DESIGN, <<"6", "0", "0", "0", "0", "0", "0">>),
               KV(K_ENERGY_FULL, <<"5", "0", "0", "0", "0", "0", "0">>),
               KV(K_ENERGY_NOW, <<"4", "5", "0", "0", "0", "0", "0">>),
               KV(K_CAPACITY, <<"8", "0">>)>>)
FileB ==
    TextFile(<<KV(K_STATUS, <<"Full">>),
               <<"garbage">>,
               KV(K_CYCLE_COUNT, BigNumber),
               KV(K_VOLTAGE_NOW, <<"1", "1", "0", "0", "0", "0", "0", "0">>),
               KV(K_ENERGY_FULL_DESIGN, <<"5", "0", "0", "0", "0", "0", "0">>),
               KV(K_ENERGY_FULL, <<"6", "0", "0", "0", "0", "0", "0">>),
               KV(K_ENERGY_NOW, <<"3", "0", "0", "0", "0", "0", "0">>),
               KV(K_CAPACITY, <<"5", "5">>)>>)

\* What one read of a device's attribute file may find.
Files == {NoFile, FileA, FileB}

\* The sink enable flags of the configuration and its interval, left unset;
\* Host is its host label.
IntervalUnset == <<0, 0, 0>>
\* The intervals of the interval specification, in seconds: 0, 5, -1,
\* 9223372036, 9223372037 and 18446744074.
Intervals ==
    {IntervalUnset, <<0, 0, 5>>, <<0 - 1, 999999999, 999999999>>,
     <<0, 9, 223372036>>, <<0, 9, 223372037>>, <<0, 18, 446744074>>}
Configs ==
    [Prometheus : BOOLEAN, Pushgateway : BOOLEAN, InfluxDB : BOOLEAN,
     Interval : {IntervalUnset}]
Host == <<"myhost">>

\* --------------------------------------------------------------------- state
VARIABLES
    sysfs,        \* the power-supply namespace
    config,       \* the loaded configuration
    mainpc,       \* position of main
    batteries,    \* the global device list
    enumCalls,    \* number of findBatteries calls made
    promGauges,   \* device -> gauge key -> GaugeVec (label -> value)
    registry,     \* the <<device, gauge key>> vectors registered for scraping
    pc,           \* position of the updateMetrics goroutine
    idx,          \* index of the device of the current iteration
    mi,           \* index of the gauge being set
    info,         \* result of the current iteration's readBatteryInfo
    influxBuf,    \* points written to the time-series client, not yet flushed
    tick,         \* number of the current tick (saturates at MaxTick)
    sleeps,       \* number of interval sleeps completed (saturates at MaxTick)
    tickInfo,     \* device -> result of its read in the current tick
    tickPoints,   \* points written in the current tick
    tickFlushes,  \* flushes of the current tick: batch, outcome, device index
    tickPushes,   \* Pushgateway transmissions of the current tick
    prevStore,    \* the canonical gauge set as it was when the tick began
    written,      \* <<gauge key, label>> -> values ever set on that series
    scraped,      \* <<snapshot>> while the latest step is a scrape, else <<>>
    pfile,        \* parsing specification: the attribute file
    pinfo,        \* parsing specification: <<result>> once parsed
    dinput,       \* derivation specification: the reading
    doutput,      \* derivation specification: <<values>> once derived
    idled,        \* <<pause>> of the latest time.Sleep, in nanoseconds
    tickLog,      \* the reads and sink triggers of this tick, in order
    lastOk        \* device -> its most recent successful reading

vars ==
    <<sysfs, config, mainpc, batteries, enumCalls, promGauges, registry, pc,
      idx, mi, info, influxBuf, tick, sleeps, tickInfo, tickPoints,
      tickFlushes, tickPushes, prevStore, written, scraped, pfile, pinfo,
      dinput, doutput, idled, tickLog, lastOk>>

mainVars == <<sysfs, config, batteries, enumCalls>>
parseVars == <<pfile, pinfo, dinput, doutput>>
ghostVars == <<idled, tickLog, lastOk>>
tickVars == <<tick, sleeps, tickInfo, tickPoints, tickFlushes, tickPushes,
              prevStore>>

Min(a, b) == IF a < b THEN a ELSE b
Range(f) == {f[x] : x \in DOMAIN f}

NoRead == [err |-> TRUE]
NotRead == [done |-> FALSE]
WasRead(r) == [done |-> TRUE, res |-> r]

\* config.Prometheus.Enabled || config.Pushgateway.Enabled
GaugesEnabled == config.Prometheus \/ config.Pushgateway
\* config.InfluxDB.Enabled && influxWriteAPI != nil (the API is created
\* exactly when the sink is enabled)
InfluxEnabled == config.InfluxDB

\* g := promGauges[batteries[0]]
CanonicalGauges == promGauges[batteries[1]]
batName == batteries[idx]

\* A GaugeVec with no series, and one with the series of label l at value v.
EmptyVec == [l \in {} |-> <<0, 1>>]
WithSeries(vec, l, v) ==
    [x \in DOMAIN vec \cup {l} |-> IF x = l THEN v ELSE vec[x]]

\* What a gather of the registered vectors returns: gauge key -> label -> value.
Gather ==
    [m \in {c[2] : c \in registry} |->
        promGauges[(CHOOSE c \in registry : c[2] = m)[1]][m]]

Init ==
    /\ sysfs \in Namespaces
    /\ config \in Configs
    /\ mainpc = "findBatteries"
    /\ batteries = <<>>
    /\ enumCalls = 0
    /\ promGauges = <<>>
    /\ registry = {}
    /\ pc = "off"
    /\ idx = 0
    /\ mi = 0
    /\ info = NoRead
    /\ influxBuf = <<>>
    /\ tick = 0
    /\ sleeps = 0
    /\ tickInfo = <<>>
    /\ tickPoints = <<>>
    /\ tickFlushes = <<>>
    /\ tickPushes = <<>>
    /\ prevStore = <<>>
    /\ written = <<>>
    /\ scraped = <<>>
    /\ idled = <<>>
    /\ tickLog = <<>>
    /\ lastOk = <<>>
    /\ pfile = NoFile
    /\ pinfo = <<>>
    /\ dinput = NewBatteryInfo(<<>>)
    /\ doutput = <<>>

\* ---------------------------------------------------------------------- main
\* Variant of FindBatteries without the check of lines 405-407: main goes on
\* with an empty device list.
FindBatteries_noFatal ==
    /\ mainpc = "findBatteries"
    /\ batteries' = findBatteries(sysfs)
    /\ enumCalls' = enumCalls + 1
    /\ mainpc' = "initMetrics"
    /\ scraped' = <<>>
    /\ UNCHANGED <<sysfs, config, promGauges, registry, pc, idx, mi, info,
                   influxBuf, tickVars, written, parseVars, ghostVars>>

\* batteries = findBatteries(); log.Fatal when the list is empty
FindBatteries ==
    /\ mainpc = "findBatteries"
    /\ batteries' = findBatteries(sysfs)
    /\ enumCalls' = enumCalls + 1
    /\ mainpc' = IF Len(batteries') = 0 THEN "fatal" ELSE "initMetrics"
    /\ scraped' = <<>>
    /\ UNCHANGED <<sysfs, config, promGauges, registry, pc, idx, mi, info,
                   influxBuf, tickVars, written, parseVars, ghostVars>>

\* Variant of initPrometheusMetrics that also creates, at 0, the series of
\* every device in the first device's vectors.
initPrometheusMetrics_eager ==
    /\ promGauges' =
         [b \in Range(batteries) |->
            [m \in Metrics |->
               IF b = batteries[1]
               THEN [l \in Range(batteries) |-> Float(0)]
               ELSE EmptyVec]]
    /\ registry' = {<<batteries[1], m>> : m \in Metrics}

\* initPrometheusMetrics: a gauge set per device, the first one registered
initPrometheusMetrics ==
    /\ promGauges' =
         [b \in Range(batteries) |-> [m \in Metrics |-> EmptyVec]]
    /\ registry' = IF Len(batteries) > 0
                   THEN {<<batteries[1], m>> : m \in Metrics}
                   ELSE {}

\* The condition of line 410; as a variant, the pull endpoint alone.
MetricsInitEnabled_pullOnly == config.Prometheus
MetricsInitEnabled == config.Prometheus \/ config.Pushgateway

InitMetrics ==
    /\ mainpc = "initMetrics"
    /\ IF MetricsInitEnabled THEN initPrometheusMetrics
       ELSE UNCHANGED <<promGauges, registry>>
    /\ mainpc' = "spawn"
    /\ scraped' = <<>>
    /\ UNCHANGED <<mainVars, pc, idx, mi, info, influxBuf, tickVars, written,
                   parseVars, ghostVars>>

\* go updateMetrics()
Spawn ==
    /\ mainpc = "spawn"
    /\ pc' = "start"
    /\ mainpc' = "serve"
    /\ scraped' = <<>>
    /\ UNCHANGED <<mainVars, promGauges, registry, idx, mi, info, influxBuf,
                   tickVars, written, parseVars, ghostVars>>

\* http.ListenAndServe binds and serves, or fails and log.Fatal ends the
\* process; without the pull endpoint main blocks in select {}.
Serve ==
    /\ mainpc = "serve"
    /\ \E bound \in BOOLEAN :
         mainpc' = IF ~config.Prometheus THEN "blocked"
                   ELSE IF bound THEN "serving" ELSE "fatal"
    /\ scraped' = <<>>
    /\ UNCHANGED <<mainVars, promGauges, registry, pc, idx, mi, info,
                   influxBuf, tickVars, written, parseVars, ghostVars>>

\* promhttp.Handler serving one scrape request
Scrape ==
    /\ mainpc = "serving"
    /\ scraped' = <<Gather>>
    /\ UNCHANGED <<mainVars, mainpc, promGauges, registry, pc, idx, mi, info,
                   influxBuf, tickVars, written, parseVars, ghostVars>>

\* ------------------------------------------------------------- updateMetrics
\* log.Fatal ends the process and with it the goroutine.
Alive == mainpc # "fatal"

Store == IF GaugesEnabled THEN CanonicalGauges ELSE <<>>
FreshTick == [b \in Range(batteries) |-> NotRead]
WrittenFor(m, l) ==
    IF <<m, l>> \in DOMAIN written THEN written[<<m, l>>] ELSE {}

\* Variants of AfterDevices: the flush left out; the push left out.
AfterDevices_noFlush == IF config.Pushgateway THEN "push" ELSE "sleep"
AfterDevices_noPush == IF InfluxEnabled THEN "flush" ELSE "sleep"

\* Where the loop continues after the device loop: the flush, the push, the
\* sleep, whichever comes first among the enabled ones.
AfterDevices ==
    IF InfluxEnabled THEN "flush"
    ELSE IF config.Pushgateway THEN "push" ELSE "sleep"

\* Variant of Advance that passes over the device after the current one.
Advance_skip ==
    /\ idx' = idx + 2
    /\ mi' = 0
    /\ pc' = IF idx + 1 < Len(batteries) THEN "read" ELSE AfterDevices

\* The end of one iteration of `for _, batName := range batteries`.
Advance ==
    /\ idx' = idx + 1
    /\ mi' = 0
    /\ pc' = IF idx < Len(batteries) THEN "read" ELSE AfterDevices

\* Variant of LoopStart that sleeps one interval before the first tick.
LoopStart_sleepFirst ==
    /\ Alive /\ pc = "start"
    /\ pc' = "sleep" /\ idx' = 0 /\ mi' = 0
    /\ tick' = 0
    /\ tickInfo' = FreshTick
    /\ prevStore' = Store
    /\ scraped' = <<>>
    /\ UNCHANGED <<mainVars, mainpc, promGauges, registry, info, influxBuf,
                   sleeps, tickPoints, tickFlushes, tickPushes, written,
                   parseVars, ghostVars>>

\* Lines 184-196: the interval, the time-series client, entry into the loop.
LoopStart ==
    /\ Alive /\ pc = "start"
    /\ pc' = "read" /\ idx' = 1 /\ mi' = 0
    /\ tick' = 1
    /\ tickInfo' = FreshTick
    /\ prevStore' = Store
    /\ scraped' = <<>>
    /\ UNCHANGED <<mainVars, mainpc, promGauges, registry, info, influxBuf,
                   sleeps, tickPoints, tickFlushes, tickPushes, written,
                   parseVars, ghostVars>>

\* Variants of AfterRead: a failed read leaves the device loop (`break`), or
\* leaves updateMetrics (`return`), instead of going on with the next device.
AfterRead_break(r) ==
    IF r.err
    THEN idx' = Len(batteries) + 1 /\ mi' = 0 /\ pc' = AfterDevices
         /\ info' = NoRead
    ELSE /\ info' = r
         /\ IF GaugesEnabled THEN pc' = "with" /\ mi' = 1 /\ idx' = idx
            ELSE IF InfluxEnabled THEN pc' = "point" /\ mi' = 0 /\ idx' = idx
            ELSE Advance
AfterRead_return(r) ==
    IF r.err
    THEN idx' = idx /\ mi' = 0 /\ pc' = "returned" /\ info' = NoRead
    ELSE /\ info' = r
         /\ IF GaugesEnabled THEN pc' = "with" /\ mi' = 1 /\ idx' = idx
            ELSE IF InfluxEnabled THEN pc' = "point" /\ mi' = 0 /\ idx' = idx
            ELSE Advance

\* What the loop does with the result r of readBatteryInfo (lines 199-223).
AfterRead(r) ==
    IF r.err THEN Advance /\ info' = NoRead
    ELSE /\ info' = r
         /\ IF GaugesEnabled THEN pc' = "with" /\ mi' = 1 /\ idx' = idx
            ELSE IF InfluxEnabled THEN pc' = "point" /\ mi' = 0 /\ idx' = idx
            ELSE Advance

\* info, err := readBatteryInfo(batName), then the derivation of the values
ReadDevice ==
    /\ Alive /\ pc = "read"
    /\ \E file \in Files :
         LET r == readBatteryInfo(batName, file) IN
         /\ tickInfo' = [tickInfo EXCEPT ![batName] = WasRead(r)]
         /\ lastOk' = IF r.err THEN lastOk
                      ELSE [d \in DOMAIN lastOk \cup {batName} |->
                              IF d = batName THEN r.info ELSE lastOk[d]]
         /\ AfterRead(r)
    /\ tickLog' = Append(tickLog, <<"read", batName>>)
    /\ scraped' = <<>>
    /\ UNCHANGED <<mainVars, mainpc, promGauges, registry, influxBuf, tick,
                   sleeps, tickPoints, tickFlushes, tickPushes, prevStore,
                   written, parseVars, idled>>

\* The label value passed to WithLabelValues (lines 225-230); as a variant,
\* the key of the gauge set instead of the device of the iteration.
setLabel_first == batteries[1]
setLabel == batName

\* g[key].WithLabelValues(batName): the series is created, at value 0, by the
\* first call for the label and returned by the later ones. As a variant,
\* the call starts the vector afresh with that one series.
WithLabelValues_reset(vec, l) == WithSeries(EmptyVec, l, Float(0))
WithLabelValues(vec, l) ==
    IF l \in DOMAIN vec THEN vec ELSE WithSeries(vec, l, Float(0))

GaugeWith ==
    /\ Alive /\ pc = "with"
    /\ promGauges' =
         [promGauges EXCEPT ![batteries[1]][MetricNames[mi]] =
             WithLabelValues(@, setLabel)]
    /\ pc' = "set"
    /\ scraped' = <<>>
    /\ UNCHANGED <<mainVars, mainpc, registry, idx, mi, info, influxBuf,
                   tickVars, written, parseVars, ghostVars>>

\* The value the loop passes to Set for gauge key m.
SetValue(m) == Derived(info.info)[m]

\* Variant of GaugeSet that stops after the third gauge of a device.
GaugeSet_half ==
    /\ Alive /\ pc = "set"
    /\ LET m == MetricNames[mi]
           v == SetValue(m)
       IN /\ promGauges' =
               [promGauges EXCEPT ![batteries[1]][m][setLabel] = v]
          /\ written' =
               [k \in DOMAIN written \cup {<<m, setLabel>>} |->
                   IF k = <<m, setLabel>> THEN WrittenFor(m, setLabel) \cup {v}
                   ELSE written[k]]
    /\ IF mi < 3
       THEN pc' = "with" /\ mi' = mi + 1 /\ idx' = idx /\ info' = info
       ELSE IF InfluxEnabled
            THEN pc' = "point" /\ mi' = 0 /\ idx' = idx /\ info' = info
            ELSE Advance /\ info' = NoRead
    /\ scraped' = <<>>
    /\ UNCHANGED <<mainVars, mainpc, registry, influxBuf, tickVars,
                   parseVars, ghostVars>>

\* .Set(value) on the series just obtained
GaugeSet ==
    /\ Alive /\ pc = "set"
    /\ LET m == MetricNames[mi]
           v == SetValue(m)
       IN /\ promGauges' =
               [promGauges EXCEPT ![batteries[1]][m][setLabel] = v]
          /\ written' =
               [k \in DOMAIN written \cup {<<m, setLabel>>} |->
                   IF k = <<m, setLabel>> THEN WrittenFor(m, setLabel) \cup {v}
                   ELSE written[k]]
    /\ IF mi < Len(MetricNames)
       THEN pc' = "with" /\ mi' = mi + 1 /\ idx' = idx /\ info' = info
       ELSE IF InfluxEnabled
            THEN pc' = "point" /\ mi' = 0 /\ idx' = idx /\ info' = info
            ELSE Advance /\ info' = NoRead
    /\ scraped' = <<>>
    /\ UNCHANGED <<mainVars, mainpc, registry, influxBuf, tickVars,
                   parseVars, ghostVars>>

\* influxWriteAPI.WritePoint(p)
WritePoint ==
    /\ Alive /\ pc = "point"
    /\ LET p == Point(Host, batName, info.info)
       IN /\ influxBuf' = Append(influxBuf, p)
          /\ tickPoints' = Append(tickPoints, p)
    /\ Advance /\ info' = NoRead
    /\ scraped' = <<>>
    /\ UNCHANGED <<mainVars, mainpc, promGauges, registry, tick, sleeps,
                   tickInfo, tickFlushes, tickPushes, prevStore, written,
                   parseVars, ghostVars>>

\* influxWriteAPI.Flush(): the buffered points are sent; the outcome of the
\* transmission is not reported to the loop.
Flush ==
    /\ Alive /\ pc = "flush"
    /\ \E ok \in BOOLEAN :
         tickFlushes' =
           Append(tickFlushes, [batch |-> influxBuf, ok |-> ok, at |-> idx])
    /\ influxBuf' = <<>>
    /\ pc' = IF config.Pushgateway THEN "push" ELSE "sleep"
    /\ tickLog' = Append(tickLog, <<"flush">>)
    /\ scraped' = <<>>
    /\ UNCHANGED <<mainVars, mainpc, promGauges, registry, idx, mi, info,
                   tick, sleeps, tickInfo, tickPoints, tickPushes, prevStore,
                   written, parseVars, idled, lastOk>>

\* Variant of Push that empties the six vectors once they are sent.
Push_reset ==
    /\ Alive /\ pc = "push"
    /\ \E ok \in BOOLEAN :
         tickPushes' =
           Append(tickPushes,
                  [snapshot |-> promGauges[batteries[1]], ok |-> ok,
                   at |-> idx])
    /\ promGauges' =
         [promGauges EXCEPT ![batteries[1]] = [m \in Metrics |-> EmptyVec]]
    /\ pc' = "sleep"
    /\ tickLog' = Append(tickLog, <<"push">>)
    /\ scraped' = <<>>
    /\ UNCHANGED <<mainVars, mainpc, registry, idx, mi, info,
                   influxBuf, tick, sleeps, tickInfo, tickPoints, tickFlushes,
                   prevStore, written, parseVars, idled, lastOk>>

\* pusher.Push(): the six vectors of the first device's gauge set are
\* gathered and sent; an error is logged.
Push ==
    /\ Alive /\ pc = "push"
    /\ \E ok \in BOOLEAN :
         tickPushes' =
           Append(tickPushes,
                  [snapshot |-> promGauges[batteries[1]], ok |-> ok,
                   at |-> idx])
    /\ pc' = "sleep"
    /\ tickLog' = Append(tickLog, <<"push">>)
    /\ scraped' = <<>>
    /\ UNCHANGED <<mainVars, mainpc, promGauges, registry, idx, mi, info,
                   influxBuf, tick, sleeps, tickInfo, tickPoints, tickFlushes,
                   prevStore, written, parseVars, idled, lastOk>>

\* Lines 184-187: the interval of the loop, for each configured value.
DefaultInterval == <<0, 0, 10>>
IntervalOf ==
    [n \in Intervals |->
        IF DurationSeconds(n) = Zero THEN DurationSeconds(DefaultInterval)
        ELSE DurationSeconds(n)]
interval == IntervalOf[config.Interval]

\* time.Sleep(d) pauses for at least d and returns at once when d <= 0.
SleepPause(d) == IF d[1] < 0 THEN Zero ELSE d

\* time.Sleep(interval) returns and the next iteration of `for {` begins.
Sleep ==
    /\ Alive /\ pc = "sleep"
    /\ idled' = <<SleepPause(interval)>>
    /\ tickLog' = <<>>
    /\ UNCHANGED lastOk
    /\ pc' = "read" /\ idx' = 1 /\ mi' = 0
    /\ tick' = Min(tick + 1, MaxTick)
    /\ sleeps' = Min(sleeps + 1, MaxTick)
    /\ tickInfo' = FreshTick
    /\ tickPoints' = <<>>
    /\ tickFlushes' = <<>>
    /\ tickPushes' = <<>>
    /\ prevStore' = Store
    /\ scraped' = <<>>
    /\ UNCHANGED <<mainVars, mainpc, promGauges, registry, info, influxBuf,
                   written, parseVars>>

LoopStep ==
    \/ LoopStart
    \/ ReadDevice
    \/ GaugeWith
    \/ GaugeSet
    \/ WritePoint
    \/ Flush
    \/ Push
    \/ Sleep

Next ==
    \/ FindBatteries
    \/ InitMetrics
    \/ Spawn
    \/ Serve
    \/ Scrape
    \/ LoopStep

Spec == Init /\ [][Next]_vars

\* main runs to its blocking call and the goroutine is scheduled whenever it
\* can take a step.
MainStep == FindBatteries \/ InitMetrics \/ Spawn \/ Serve
FairSpec == Spec /\ WF_vars(MainStep) /\ WF_vars(LoopStep)

\* ------------------------------------------------- parsing specification
\* readBatteryInfo applied to every attribute file of at most MaxLines lines
\* drawn from ParseLines.
ParseValues ==
    {<<>>, <<"7">>, <<"1", "2">>, <<"0", "0", "8">>, <<"-", "5">>,
     <<"+", "3">>, <<"-">>, <<"a", "b", "c">>, <<"1", "x">>, <<" ", "4">>,
     <<"1", "=", "2">>, BigNumber, <<"-">> \o BigNumber}
ParseKeys == NumericKeys \cup {K_STATUS, "POWER_SUPPLY_NAME"}
ParseLines ==
    {KV(k, v) : k \in ParseKeys, v \in ParseValues}
        \cup {<<>>, <<"garbage">>, KV(K_STATUS, <<"Charging">>)}
ParseFiles ==
    {NoFile} \cup
    {TextFile(ls) : ls \in UNION {[1..n -> ParseLines] : n \in 0..MaxLines}}

InitParse ==
    /\ pfile \in ParseFiles
    /\ pinfo = <<>>
    /\ dinput = NewBatteryInfo(<<>>)
    /\ doutput = <<>>
    /\ sysfs = NoDir
    /\ config = [Prometheus |-> FALSE, Pushgateway |-> FALSE,
                 InfluxDB |-> FALSE, Interval |-> IntervalUnset]
    /\ mainpc = "findBatteries"
    /\ batteries = <<>>
    /\ enumCalls = 0
    /\ promGauges = <<>>
    /\ registry = {}
    /\ pc = "off"
    /\ idx = 0
    /\ mi = 0
    /\ info = NoRead
    /\ influxBuf = <<>>
    /\ tick = 0
    /\ sleeps = 0
    /\ tickInfo = <<>>
    /\ tickPoints = <<>>
    /\ tickFlushes = <<>>
    /\ tickPushes = <<>>
    /\ prevStore = <<>>
    /\ written = <<>>
    /\ scraped = <<>>
    /\ idled = <<>>
    /\ tickLog = <<>>
    /\ lastOk = <<>>

ParseStep ==
    /\ pinfo = <<>>
    /\ pinfo' = <<readBatteryInfo(BAT0, pfile)>>
    /\ UNCHANGED <<sysfs, config, mainpc, batteries, enumCalls, promGauges,
                   registry, pc, idx, mi, info, influxBuf, tickVars, written,
                   scraped, pfile, dinput, doutput, ghostVars>>

SpecParse == InitParse /\ [][ParseStep]_vars

\* ------------------------------------------------ interval specification
\* The program with at most one device under configurations whose interval
\* is 0, 5, -1, 9223372036, 9223372037 or 18446744074 seconds.
IntervalConfigs ==
    [Prometheus : BOOLEAN, Pushgateway : BOOLEAN, InfluxDB : BOOLEAN,
     Interval : Intervals]
IntervalNamespaces == {ns \in Namespaces : Len(findBatteries(ns)) <= 1}

InitInterval ==
    /\ sysfs \in IntervalNamespaces
    /\ config \in IntervalConfigs
    /\ mainpc = "findBatteries"
    /\ batteries = <<>>
    /\ enumCalls = 0
    /\ promGauges = <<>>
    /\ registry = {}
    /\ pc = "off"
    /\ idx = 0
    /\ mi = 0
    /\ info = NoRead
    /\ influxBuf = <<>>
    /\ tick = 0
    /\ sleeps = 0
    /\ tickInfo = <<>>
    /\ tickPoints = <<>>
    /\ tickFlushes = <<>>
    /\ tickPushes = <<>>
    /\ prevStore = <<>>
    /\ written = <<>>
    /\ scraped = <<>>
    /\ idled = <<>>
    /\ tickLog = <<>>
    /\ lastOk = <<>>
    /\ pfile = NoFile
    /\ pinfo = <<>>
    /\ dinput = NewBatteryInfo(<<>>)
    /\ doutput = <<>>

SpecInterval == InitInterval /\ [][Next]_vars

\* ---------------------------------------------- derivation specification
\* The derivation of updateMetrics applied to every reading whose energy
\* fields lie in -1..MaxEnergy and whose status is one of StatusValues.
StatusValues ==
    {<<"Charging">>, <<"Full">>, <<"Not charging">>, <<"Discharging">>,
     <<>>, <<"garbage">>, <<"Unknown">>, <<"charging">>, <<"CHARGING">>,
     <<"full">>, <<"Charging", " ">>, <<" ", "Full">>, <<"Not  charging">>,
     <<"not charging">>}
DeriveInputs ==
    {[NewBatteryInfo(BAT0) EXCEPT !.EnergyFull = ef, !.EnergyDesign = ed,
                                  !.Status = st] :
        ef \in (0 - 1)..MaxEnergy, ed \in (0 - 1)..MaxEnergy,
        st \in StatusValues}

InitDerive ==
    /\ dinput \in DeriveInputs
    /\ doutput = <<>>
    /\ pfile = NoFile
    /\ pinfo = <<>>
    /\ sysfs = NoDir
    /\ config = [Prometheus |-> FALSE, Pushgateway |-> FALSE,
                 InfluxDB |-> FALSE, Interval |-> IntervalUnset]
    /\ mainpc = "findBatteries"
    /\ batteries = <<>>
    /\ enumCalls = 0
    /\ promGauges = <<>>
    /\ registry = {}
    /\ pc = "off"
    /\ idx = 0
    /\ mi = 0
    /\ info = NoRead
    /\ influxBuf = <<>>
    /\ tick = 0
    /\ sleeps = 0
    /\ tickInfo = <<>>
    /\ tickPoints = <<>>
    /\ tickFlushes = <<>>
    /\ tickPushes = <<>>
    /\ prevStore = <<>>
    /\ written = <<>>
    /\ scraped = <<>>
    /\ idled = <<>>
    /\ tickLog = <<>>
    /\ lastOk = <<>>

\* Lines 204-220 and 235-250 on one reading: the values for the gauges and
\* the point for the time-series sink.
DeriveStep ==
    /\ doutput = <<>>
    /\ doutput' = <<[gauges |-> Derived(dinput),
                     point |-> Point(Host, dinput.Name, dinput)]>>
    /\ UNCHANGED <<sysfs, config, mainpc, batteries, enumCalls, promGauges,
                   registry, pc, idx, mi, info, influxBuf, tickVars, written,
                   scraped, pfile, pinfo, dinput, ghostVars>>

SpecDerive == InitDerive /\ [][DeriveStep]_vars

\* ==================================================================== claims
Devices == Range(batteries)
\* The series of gauge key m under label d in gauge set g: <<value>>, or <<>>
\* when the vector holds no such series.
Series(g, m, d) == IF d \in DOMAIN g[m] THEN <<g[m][d]>> ELSE <<>>
Attempted(d) == tickInfo[d].done
ReadFailed(d) == tickInfo[d].done /\ tickInfo[d].res.err
ReadOk(d) == tickInfo[d].done /\ ~tickInfo[d].res.err
\* The loop has finished a tick and is in its interval sleep.
Idle == pc = "sleep"
Sampling == pc \in {"read", "with", "set", "point"}
\* The gauge set exists (the main goroutine has passed initPrometheusMetrics).
StoreReady ==
    GaugesEnabled /\ mainpc \in {"spawn", "serve", "serving", "blocked", "fatal"}
        /\ Len(batteries) > 0

\* C1: a device whose read fails on tick N >= 2 keeps, after the tick, the
\* value (or absence) of each of its six series as it was at the end of tick
\* N-1, and every device of the tick has still been attempted.
C1_StaleOnReadFailure ==
    (Idle /\ GaugesEnabled /\ tick >= 2) =>
        /\ \A d \in Devices : Attempted(d)
        /\ \A d \in Devices : ReadFailed(d) =>
              \A m \in Metrics : Series(Store, m, d) = Series(prevStore, m, d)

\* C1 witness: at the end of a tick >= 2 the first device failed and still
\* shows the 80 percent of the earlier tick, the second device was read and
\* rewritten.
C1_Witness ==
    /\ Idle /\ GaugesEnabled /\ tick >= 2 /\ Len(batteries) = 2
    /\ ReadFailed(batteries[1]) /\ ReadOk(batteries[2])
    /\ Series(Store, "percentage", batteries[1]) = <<Float(80)>>
    /\ Series(Store, "percentage", batteries[2])
         # Series(prevStore, "percentage", batteries[2])

C2_SeriesState ==
    /\ StoreReady =>
         /\ DOMAIN promGauges = Devices
         /\ \A b \in Devices : DOMAIN promGauges[b] = Metrics
         /\ registry = {<<batteries[1], m>> : m \in Metrics}
         /\ \A d \in Devices : \A m \in Metrics :
              Series(Store, m, d) # <<>> <=>
                 \/ WrittenFor(m, d) # {}
                 \/ pc = "set" /\ batName = d /\ MetricNames[mi] = m
         /\ \A d \in Devices :
              (tick = 0 \/ (tick = 1 /\ ~ReadOk(d))) =>
                 \A m \in Metrics : Series(Store, m, d) = <<>>
         /\ \A d \in Devices :
              (Idle /\ ReadOk(d)) =>
                 \A m \in Metrics : Series(Store, m, d) # <<>>
    /\ scraped # <<>> => scraped[1] = Store
C2_SeriesKept ==
    StoreReady =>
        \A d \in Devices : \A m \in Metrics :
           Series(promGauges[batteries[1]], m, d) # <<>> =>
              Series(promGauges'[batteries[1]], m, d) # <<>>
TickBegins == pc = "read" /\ idx = 1
\* C3: whatever reads, flushes and pushes fail, and with or without the pull
\* endpoint, a process that is not ended by a fatal startup error (no
\* device, listener not bound) begins a new tick infinitely often.
C3_LoopNeverStops == <>(mainpc = "fatal") \/ []<>TickBegins

\* C3 witness: a tick >= 2 ends in which every read, the flush and the push
\* failed.
C3_Witness ==
    /\ Idle /\ tick >= 2 /\ Len(batteries) = 2
    /\ \A d \in Devices : ReadFailed(d)
    /\ Len(tickFlushes) = 1 /\ ~tickFlushes[1].ok
    /\ Len(tickPushes) = 1 /\ ~tickPushes[1].ok

\* State and step parts of per-device isolation.
C4_DerivedAtEnd ==
    (Idle /\ GaugesEnabled) =>
        /\ \A d \in Devices : ReadOk(d) =>
              \A m \in Metrics :
                 Series(Store, m, d) = <<Derived(tickInfo[d].res.info)[m]>>
        /\ \A b \in Devices \ {batteries[1]} :
              \A m \in Metrics : promGauges[b][m] = EmptyVec
C4_OtherLabelsKept ==
    (pc \in {"with", "set"}) =>
        \A d \in Devices \ {batName} : \A m \in Metrics :
           Series(promGauges'[batteries[1]], m, d)
              = Series(promGauges[batteries[1]], m, d)
\* C4: after a tick, the six values under the label of a device read in that
\* tick are the ones derived from that device's own reading; only the first
\* device's gauge set ever holds series; a step that writes for one device
\* leaves the series of every other label unchanged.
C4_PerDeviceIsolation == [](C4_DerivedAtEnd) /\ [][C4_OtherLabelsKept]_vars

\* C4 witness: two devices with capacities 80 and 55 after one tick.
C4_Witness ==
    /\ Idle /\ GaugesEnabled /\ Len(batteries) = 2
    /\ ReadOk(batteries[1]) /\ ReadOk(batteries[2])
    /\ Store["percentage"][batteries[1]] = Float(80)
    /\ Store["percentage"][batteries[2]] = Float(55)

\* C5 (as claimed): every value a scrape returns for a (metric, device) pair
\* is a value the loop has set on that pair.
C5_ScrapeReturnsWritten ==
    scraped # <<>> =>
        \A m \in DOMAIN scraped[1] : \A d \in DOMAIN scraped[1][m] :
           scraped[1][m][d] \in WrittenFor(m, d)

\* The last line of a key in a file, and the integer its value denotes.
KeyOf(line) == SplitN2(line)[1]
ValueOf(line) == SplitN2(line)[2]
LinesOf(file, k) ==
    {i \in 1..Len(file.lines) :
        Len(SplitN2(file.lines[i])) = 2 /\ KeyOf(file.lines[i]) = <<k>>}
LastOf(file, k) ==
    CHOOSE i \in LinesOf(file, k) : \A j \in LinesOf(file, k) : j <= i
IntegerOf(v) ==
    IF v[1] = "-" THEN 0 - DecValue(Unsigned(v)) ELSE DecValue(Unsigned(v))
C6_FieldOf(file, k) ==
    IF LinesOf(file, k) = {} THEN 0
    ELSE LET v == ValueOf(file.lines[LastOf(file, k)])
         IN IF AtoiErr(v) THEN 0 ELSE IntegerOf(v)
\* C6 (as claimed): for a file that opens, the read succeeds and every numeric
\* field holds the integer of the last line of its key, or 0 when that value
\* does not parse as an integer or the key is absent; the status holds the
\* value of its last line; other lines change nothing.
C6_MalformedIsZero ==
    (pinfo # <<>> /\ pfile.open) =>
        /\ ~pinfo[1].err
        /\ pinfo[1].info.Name = BAT0
        /\ \A k \in NumericKeys :
              pinfo[1].info[NumericField[k]] = C6_FieldOf(pfile, k)
        /\ pinfo[1].info.Status =
              IF LinesOf(pfile, K_STATUS) = {} THEN <<>>
              ELSE ValueOf(pfile.lines[LastOf(pfile, K_STATUS)])

\* C7 (as claimed): with the time-series sink enabled every tick writes one
\* point per enumerated device and flushes once, after the last device.
C7_OnePointPerDevice ==
    (Idle /\ InfluxEnabled) =>
        /\ Len(tickPoints) = Len(batteries)
        /\ \A i \in 1..Len(tickPoints) :
              tickPoints[i].tags = [host |-> Host, battery |-> batteries[i]]
        /\ Len(tickFlushes) = 1
        /\ tickFlushes[1].at = Len(batteries) + 1

\* The devices read successfully in the current tick, in enumeration order.
OkTest(d) == ReadOk(d)
OkDevices == SelectSeq(batteries, OkTest)
\* C7 (amended): with the time-series sink enabled every tick writes one
\* point, in enumeration order, for each device whose read succeeded in that
\* tick and none for a device whose read failed; the point is tagged with the
\* host and the device and carries the derived fields and the raw status; the
\* points are flushed exactly once per tick, after the last device; with the
\* sink disabled nothing is written or flushed.
C7_PointPerReadDevice ==
    /\ (Idle /\ InfluxEnabled) =>
         /\ Len(tickPoints) = Len(OkDevices)
         /\ \A i \in 1..Len(tickPoints) :
              LET r == tickInfo[OkDevices[i]].res.info
                  p == tickPoints[i]
              IN /\ p.tags = [host |-> Host, battery |-> OkDevices[i]]
                 /\ p.fields.percentage = Derived(r).percentage
                 /\ p.fields.capacity_health = Derived(r).capacity
                 /\ p.fields.charging = Derived(r).charging
                 /\ p.fields.voltage = Derived(r).voltage
                 /\ p.fields.energy_wh = Derived(r).energy_now
                 /\ p.fields.cycle_count = r.CycleCount
                 /\ p.fields.status = r.Status
         /\ Len(tickFlushes) = 1
         /\ tickFlushes[1].at = Len(batteries) + 1
         /\ tickFlushes[1].batch = tickPoints
         /\ influxBuf = <<>>
    /\ (Sampling \/ pc = "flush") => tickFlushes = <<>>
    /\ ~InfluxEnabled => tickPoints = <<>> /\ tickFlushes = <<>>

\* C7 witness: a tick of two devices ends with the first read failed: one
\* point, of the second device, flushed once.
C7_Witness ==
    /\ Idle /\ InfluxEnabled /\ Len(batteries) = 2
    /\ ReadFailed(batteries[1]) /\ ReadOk(batteries[2])
    /\ Len(tickPoints) = 1 /\ tickPoints[1].tags.battery = batteries[2]
    /\ Len(tickFlushes) = 1 /\ tickFlushes[1].batch = tickPoints

\* State and step parts of the startup ordering.
C8_Startup ==
    /\ enumCalls <= 1
    /\ mainpc # "findBatteries" =>
         enumCalls = 1 /\ batteries = findBatteries(sysfs)
    /\ pc # "off" => enumCalls = 1 /\ Len(batteries) > 0
    /\ (mainpc # "findBatteries" /\ Len(findBatteries(sysfs)) = 0) =>
         /\ mainpc = "fatal" /\ pc = "off" /\ tick = 0
         /\ promGauges = <<>> /\ registry = {} /\ written = <<>>
         /\ tickInfo = <<>> /\ tickPoints = <<>> /\ tickFlushes = <<>>
         /\ tickPushes = <<>> /\ scraped = <<>>
C8_ListFixed == mainpc # "findBatteries" => batteries' = batteries
\* C8: the enumerator runs exactly once, before the loop exists; an empty
\* result ends the process with nothing read, no store and no sink activity;
\* the loop runs only with a non-empty device list, which never changes.
C8_StartupOrdering == [](C8_Startup) /\ [][C8_ListFixed]_vars

\* C8 witness: a namespace whose only battery entry has no attribute file:
\* the enumerator ran once, returned nothing, and the process ended.
C8_Witness ==
    /\ mainpc = "fatal" /\ enumCalls = 1 /\ batteries = <<>> /\ pc = "off"
    /\ sysfs = Dir(<<Entry(AC, TRUE), Entry(BAT0, FALSE)>>)

\* C9: the loop starts in Sampling: no interval sleep has been taken before
\* or during the first tick, and when the loop first sleeps every device has
\* had its first read attempt.
C9_FirstSampleImmediate ==
    /\ tick <= 1 => sleeps = 0
    /\ tick = 0 => pc \in {"off", "start"}
    /\ Idle => tick >= 1 /\ \A d \in Devices : Attempted(d)
    /\ sleeps >= 1 => tick >= 2

\* C9 witness: the first tick is over, every device attempted, no sleep yet.
C9_Witness ==
    /\ Idle /\ tick = 1 /\ sleeps = 0 /\ Len(batteries) = 2
    /\ \A d \in Devices : Attempted(d)

\* State and step parts of the per-tick transmission.
C10_OnePush ==
    /\ (Idle /\ config.Pushgateway) =>
         /\ Len(tickPushes) = 1
         /\ tickPushes[1].at = Len(batteries) + 1
         /\ tickPushes[1].snapshot = Store
         /\ \A d \in Devices : Attempted(d)
         /\ \A d \in Devices : \A m \in Metrics :
              Series(tickPushes[1].snapshot, m, d) =
                 IF ReadOk(d) THEN <<Derived(tickInfo[d].res.info)[m]>>
                 ELSE Series(prevStore, m, d)
    /\ (Sampling \/ pc \in {"flush", "push"}) => tickPushes = <<>>
    /\ ~config.Pushgateway => tickPushes = <<>>
C10_PushKeepsStore ==
    /\ (pc = "push" /\ pc' # "push") =>
          pc' = "sleep" /\ promGauges' = promGauges
    /\ (pc = "sleep" /\ pc' # "sleep") =>
          pc' = "read" /\ idx' = 1 /\ tickInfo' = FreshTick
\* C10: with the Pushgateway enabled every tick triggers exactly one
\* transmission, after all devices were attempted, of the gauge set as it is
\* at that moment (fresh for devices read, stale for failed ones), also when
\* every read failed; the transmission, failed or not, changes no gauge and is
\* followed by the sleep and then the read of the first device.
C10_PushEveryTick == [](C10_OnePush) /\ [][C10_PushKeepsStore]_vars

\* C10 witness: a tick >= 2 in which every read failed ends with one failed
\* transmission of the stale values of the tick before.
C10_Witness ==
    /\ Idle /\ config.Pushgateway /\ tick >= 2 /\ Len(batteries) = 2
    /\ \A d \in Devices : ReadFailed(d)
    /\ Len(tickPushes) = 1 /\ ~tickPushes[1].ok
    /\ Series(tickPushes[1].snapshot, "percentage", batteries[1])
         = <<Float(80)>>
    /\ Series(tickPushes[1].snapshot, "percentage", batteries[2])
         = <<Float(55)>>

\* C11: capacity health is 100 when energy-full-design <= 0, whatever
\* energy-full is, and otherwise the exact quotient 100 * energy_full /
\* energy_full_design, not clamped; the gauge and the point carry the same
\* value.
C11_CapacityHealth ==
    doutput # <<>> =>
        LET h == doutput[1].gauges.capacity
            ef == dinput.EnergyFull
            ed == dinput.EnergyDesign
        IN /\ doutput[1].point.fields.capacity_health = h
           /\ ed <= 0 => h = <<100, 1>>
           /\ ed > 0 =>
                /\ h[2] > 0
                /\ h[1] * ed = 100 * ef * h[2]
                /\ \A k \in 2..h[2] : ~(h[1] % k = 0 /\ h[2] % k = 0)

\* C11 witness: energy-full 3 over a design of 2 gives 150.
C11_Witness ==
    /\ doutput # <<>> /\ dinput.EnergyFull = 3 /\ dinput.EnergyDesign = 2
    /\ doutput[1].gauges.capacity = <<150, 1>>

\* C12: the charging code is 1 exactly for "Charging", 2 exactly for "Full",
\* 3 exactly for "Not charging" and 0 for every other status string; the
\* gauge and the point carry the same code.
C12_ChargingCode ==
    doutput # <<>> =>
        LET c == doutput[1].gauges.charging
            st == dinput.Status
        IN /\ doutput[1].point.fields.charging = c
           /\ c \in {<<0, 1>>, <<1, 1>>, <<2, 1>>, <<3, 1>>}
           /\ c = <<1, 1>> <=> st = <<"Charging">>
           /\ c = <<2, 1>> <=> st = <<"Full">>
           /\ c = <<3, 1>> <=> st = <<"Not charging">>
           /\ st \in {<<"Discharging">>, <<>>, <<"garbage">>, <<"charging">>,
                      <<"Charging", " ">>} => c = <<0, 1>>

\* C12 witness: "Not charging" gives 3.
C12_Witness ==
    /\ doutput # <<>> /\ dinput.Status = <<"Not charging">>
    /\ doutput[1].gauges.charging = <<3, 1>>

\* The interval the configuration asks for, in nanoseconds: 10 seconds when
\* it is unset or zero.
ConfiguredInterval ==
    IF config.Interval = Zero THEN Seconds(DefaultInterval)
    ELSE Seconds(config.Interval)

\* C13: whatever the integer interval of the configuration, the loop leaves
\* Idle only after the configured interval, in seconds, has elapsed since it
\* entered Idle, 10 seconds standing in for an interval that is unset or zero.
C13_IntervalElapses ==
    idled # <<>> => Leq(ConfiguredInterval, idled[1])

\* The device identifiers that have a series in gauge set g.
Labels(g) == UNION {DOMAIN g[m] : m \in DOMAIN g}

C14_LabelsState ==
    StoreReady =>
        /\ Labels(Store) \subseteq DOMAIN lastOk
        /\ DOMAIN lastOk \subseteq Devices
        /\ tick = 0 => Labels(Store) = {}
        /\ Idle => Labels(Store) = DOMAIN lastOk
C14_LabelsStep ==
    StoreReady =>
        LET before == Labels(promGauges[batteries[1]])
            after == Labels(promGauges'[batteries[1]])
        IN /\ before \subseteq after
           /\ after # before =>
                /\ pc = "with" /\ ~info.err
                /\ after = before \cup {batName}
ExpectedLog ==
    [i \in 1..Len(batteries) |-> <<"read", batteries[i]>>]
        \o (IF config.InfluxDB THEN <<<<"flush">>>> ELSE <<>>)
        \o (IF config.Pushgateway THEN <<<<"push">>>> ELSE <<>>)
C15_LogState ==
    /\ Len(tickLog) <= Len(ExpectedLog)
    /\ tickLog = SubSeq(ExpectedLog, 1, Len(tickLog))
    /\ Idle => tickLog = ExpectedLog
C15_IdleQuiet ==
    Idle => /\ tickLog' \in {tickLog, <<>>}
            /\ tickInfo' \in {tickInfo, FreshTick}
            /\ tickFlushes' \in {tickFlushes, <<>>}
            /\ tickPushes' \in {tickPushes, <<>>}
\* C15: in every tick the reads and sink triggers happen in the order device
\* 1..n (each exactly once), flush if enabled, push if enabled, and the loop
\* is Idle only when all of them have happened; while the loop is Idle no
\* device is read and no sink is triggered.
C15_IdleAfterAll == [](C15_LogState) /\ [][C15_IdleQuiet]_vars

\* C15 witness: the loop is Idle after a second tick of two reads, a flush
\* and a push, and a scrape is served meanwhile.
C15_Witness ==
    /\ Idle /\ tick = 2 /\ scraped # <<>>
    /\ tickLog = <<<<"read", BAT0>>, <<"read", BAT1>>, <<"flush">>, <<"push">>>>

\* The values of device d in snapshot snap all come from d's most recent
\* successful reading: all six of them, or none when d was never read.
FromLastRead(snap, d) ==
    IF d \in DOMAIN lastOk
    THEN \A m \in Metrics : Series(snap, m, d) = <<Derived(lastOk[d])[m]>>
    ELSE \A m \in Metrics : Series(snap, m, d) = <<>>
\* The loop is between the successful read of d and the last Set for d.
MidWrite(d) == pc \in {"with", "set"} /\ batName = d

\* C16: a scrape taken while the loop is Idle returns, for every device read
\* successfully at least once, the six values of that device's most recent
\* successful reading; a scrape returns values of a device that are not all
\* from that one reading only while the loop is in the middle of writing
\* that device's six values.
C16_BoundedTearing ==
    scraped # <<>> =>
        /\ DOMAIN scraped[1] = Metrics
        /\ \A d \in Devices :
              /\ Idle => FromLastRead(scraped[1], d)
              /\ ~FromLastRead(scraped[1], d) => MidWrite(d)

\* C16 witness: an Idle scrape after the second tick returns the second
\* reading's values for the first device, which two ticks read differently,
\* and the first tick's values for the second, whose second read failed.
C16_Witness ==
    /\ scraped # <<>> /\ Idle /\ tick = 2 /\ Len(batteries) = 2
    /\ ReadOk(batteries[1]) /\ ReadFailed(batteries[2])
    /\ Series(prevStore, "percentage", batteries[1]) = <<Float(80)>>
    /\ Series(scraped[1], "percentage", batteries[1]) = <<Float(55)>>
    /\ Series(scraped[1], "voltage", batteries[1]) = <<Float(11)>>
    /\ Series(scraped[1], "percentage", batteries[2]) = <<Float(80)>>

\* A step of the loop's per-device write: it follows a successful read of the
\* device of the iteration and touches only that device's series of the
\* first device's gauge set.
WriteStepOnly ==
    /\ pc \in {"with", "set"} /\ ReadOk(batName) /\ ~info.err
    /\ \A b \in Devices \ {batteries[1]} : promGauges'[b] = promGauges[b]
    /\ \A d \in Devices \ {batName} : \A m \in Metrics :
          Series(promGauges'[batteries[1]], m, d)
             = Series(promGauges[batteries[1]], m, d)
C17_Step ==
    /\ mainpc # "findBatteries" => batteries' = batteries
    /\ (mainpc # "initMetrics" /\ promGauges' # promGauges) => WriteStepOnly
    /\ scraped' # <<>> => promGauges' = promGauges /\ scraped'[1] = Gather
    /\ Len(tickPushes') > Len(tickPushes) =>
          /\ promGauges' = promGauges
          /\ tickPushes'[Len(tickPushes')].snapshot = Store
    /\ Len(tickFlushes') > Len(tickFlushes) => promGauges' = promGauges
    /\ Len(tickPoints') > Len(tickPoints) => promGauges' = promGauges
\* C17: a scrape, a Pushgateway transmission (successful or failed), a
\* time-series write and a flush leave the whole store unchanged and only
\* read it; after initialization a store value changes only in the loop's
\* write step for the device just read successfully; the device list does
\* not change once startup has enumerated it.
C17_SoleWriter == [][C17_Step]_vars

\* C17 witness: a failed transmission has sent the store as it still is
\* after it, with the first device's reading in it, while the second
\* device's read failed, and the pull endpoint is serving.
C17_Witness ==
    /\ Idle /\ mainpc = "serving" /\ Len(batteries) = 2 /\ tick = 1
    /\ Len(tickPushes) = 1 /\ ~tickPushes[1].ok
    /\ tickPushes[1].snapshot = Store
    /\ ReadOk(batteries[1]) /\ ReadFailed(batteries[2])
    /\ Series(Store, "voltage", batteries[1]) = <<Rat(123, 10)>>
    /\ Labels(Store) = {batteries[1]}

\* The gauge set has been initialized for the enumerated devices.
Initialized == Len(batteries) > 0 /\ DOMAIN promGauges = Devices
\* The loop is at a step that writes to the gauge set or pushes from it.
AccessesGauges == pc \in {"with", "set", "push"}

\* C18: for each combination of the three enable flags, the loop is at a
\* step that writes to or pushes from the gauge set only when the pull
\* endpoint or the Pushgateway is enabled, and then the gauge set was
\* initialized at startup; when neither is enabled the gauge set is never
\* initialized, registered, written or pushed, and the loop still goes
\* through its reads, points and flush and ends each tick with every device
\* attempted.
C18_GaugesOnlyWhenInitialized ==
    /\ AccessesGauges =>
          (config.Prometheus \/ config.Pushgateway) /\ Initialized
    /\ (mainpc \notin {"findBatteries", "initMetrics"} /\ Len(batteries) > 0)
          => (Initialized <=> (config.Prometheus \/ config.Pushgateway))
    /\ ~(config.Prometheus \/ config.Pushgateway) =>
          /\ promGauges = <<>> /\ registry = {}
          /\ written = <<>> /\ tickPushes = <<>>
          /\ scraped = <<>>
          /\ Idle => tickLog = ExpectedLog
          /\ pc \in {"off", "start", "read", "point", "flush", "sleep"}
          /\ pc \in {"read", "point"} => idx \in 1..Len(batteries)

\* C18 witness: with only the time-series sink enabled the second tick ends
\* with both devices read and their two points written, and no gauge set.
C18_Witness ==
    /\ ~config.Prometheus /\ ~config.Pushgateway /\ config.InfluxDB
    /\ Idle /\ tick = 2 /\ Len(batteries) = 2
    /\ \A d \in Devices : ReadOk(d)
    /\ Len(tickPoints) = 2 /\ Len(tickFlushes) = 1
    /\ promGauges = <<>>

\* The number a float64 of the store denotes, for an integer-valued one.
NumberOf(v) == IF Len(v) = 3 THEN v ELSE Norm(<<0, 0, v[1]>>)
\* How many times device d was read in this tick.
ReadsOf(d) ==
    Cardinality({i \in 1..Len(tickLog) : tickLog[i] = <<"read", d>>})
\* The store agrees with point p on the field that gauge key m carries.
SameAsPoint(p, m, v) ==
    Series(Store, m, p.tags.battery) = <<v>>

\* C19: with the gauge set and the time-series sink both enabled, every point
\* written in a tick carries, for its device, the percentage, capacity
\* health, charging code, voltage, energy and cycle count that the store
\* holds for that device from the same tick, and each device is read at most
\* once in a tick, exactly once in a finished one.
C19_CrossSinkConsistency ==
    (GaugesEnabled /\ InfluxEnabled) =>
        /\ \A i \in 1..Len(tickPoints) :
              LET p == tickPoints[i]
                  d == p.tags.battery
              IN /\ ReadOk(d) /\ ReadsOf(d) = 1
                 /\ SameAsPoint(p, "percentage", p.fields.percentage)
                 /\ SameAsPoint(p, "capacity", p.fields.capacity_health)
                 /\ SameAsPoint(p, "charging", p.fields.charging)
                 /\ SameAsPoint(p, "voltage", p.fields.voltage)
                 /\ SameAsPoint(p, "energy_now", p.fields.energy_wh)
                 /\ Series(Store, "cycle_count", d) # <<>>
                 /\ NumberOf(Series(Store, "cycle_count", d)[1])
                       = Int64Value(p.fields.cycle_count)
        /\ \A d \in Devices : ReadsOf(d) <= 1
        /\ Idle => \A d \in Devices :
              /\ ReadsOf(d) = 1
              /\ ReadOk(d) => \E i \in 1..Len(tickPoints) :
                                 tickPoints[i].tags.battery = d
====
